---- MODULE Spec2Model ----
(***************************************************************************)
(* Model of the tool-augmented LLM conversation loop of                    *)
(* kty9912/sector-portfolio-agent and of its post-processing:              *)
(*   - run_portfolio_agent      (agent_test/portfolio_agent_anthropic.py)  *)
(*   - the coordinator graph    (core/graph_builder.py)                    *)
(*   - analyze_portfolio        (experiments/portfolio_endpoint.py)        *)
(*   - the three validators     (validate_portfolio_json and the two       *)
(*                               validation_node functions)                *)
(*   - the multi-agent graph    (agent_test/portfolio_agent_multi.py)      *)
(*   - the payload extraction   (supervisor_node, analysis_node,           *)
(*                               analyze_portfolio)                        *)
(*   - ingest_and_search_qdrant (agents/tools.py) with the sentiment       *)
(*                               analyzer (agents/sentiment_analyzer.py)   *)
(*   - the scoring tools and calculate_portfolio_performance               *)
(* Floats are modelled exactly: a weight is the rational n/d, weights the  *)
(* model proposes are multiples of 1/WeightScale.                          *)
(***************************************************************************)
EXTENDS Integers, Sequences, FiniteSets, TLC

VARIABLES
    \* -- a validation run --
    variant,               \* which validator runs: "anthropic", "langgraph", "multi"
    company_infos,         \* state["company_infos"]: the tickers loaded at initialization
    stock_prices,          \* state["stock_prices"]: ticker -> current_price
    portfolio_allocation,  \* the allocation list handed to the validator
    validated,             \* what the validator produced: [status, alloc]
    vpc,                   \* position of the validation run: "idle", "extracted", "validated"
    \* -- an agent loop --
    engine,                \* "single" (run_portfolio_agent), "graph" (create_graph_engine), "none"
    max_iterations,        \* max_iterations of run_portfolio_agent, recursion_limit of the graph
    iteration,             \* iteration, resp. state["iteration_count"]
    messages,              \* the transcript
    last_response,         \* what the model client did when last invoked
    model_calls,           \* number of model-client invocations of this run
    executions,            \* ids of the calls whose tool body ran, in order (data-store access log)
    slots,                 \* the graph's accumulator slots
    pc,                    \* position of the run
    exception,             \* the exception that left the run, "none" if none did
    result,                \* the dict run_portfolio_agent returned
    http,                  \* the response of analyze_portfolio
    \* -- a run of the multi-agent graph --
    mpc,                   \* the node(s) the graph is at
    agents,                \* position of each specialist step
    responses,             \* what the model client answers each specialist
    financial_metrics,     \* state["financial_metrics"]: ticker -> keys of its dict
    technical_signals,     \* state["technical_signals"]: ticker -> keys of its dict
    prompts,               \* the data each specialist put into its prompt
    updates,               \* the dict each specialist returned
    analyses,              \* the slots financial_analysis, technical_analysis, news_analysis
    supervisor_runs,       \* how often supervisor_node ran
    \* -- one extraction of a payload from a model response --
    extractor,             \* the function that extracts
    response_text,         \* response.content
    extracted,             \* what the extraction produced
    xpc,                   \* "idle", "responded", "extracted", "raised"
    \* -- calls of ingest_and_search_qdrant --
    sentiment_analyzer,    \* tools.sentiment_analyzer: "finbert" (FinBERT loaded), "lexicon"
                           \* (FinBERT not available), "none" (the import failed)
    collection,            \* the points of the Qdrant collection: [id, text, sector]
    uuid_count,            \* how many uuid4 values were drawn for point ids
    ingest_log,            \* per call: its argument, the crawled items, what it did
    \* -- one call of a scoring or performance tool --
    fn,                    \* the function called
    fn_input,              \* the stored rows and arguments it sees
    fn_output,             \* what it returned
    fpc                    \* "idle", "called", "returned"

valVars == <<variant, company_infos, stock_prices, portfolio_allocation, validated, vpc>>

loopVars == <<engine, max_iterations, iteration, messages, last_response, model_calls,
              executions, slots, pc, exception, result, http>>

multiVars == <<mpc, agents, responses, financial_metrics, technical_signals, prompts,
               updates, analyses, supervisor_runs>>

extractVars == <<extractor, response_text, extracted, xpc>>

ingestVars == <<sentiment_analyzer, collection, uuid_count, ingest_log>>

callVars == <<fn, fn_input, fn_output, fpc>>

toolVars == <<ingestVars, callVars>>

vars == <<valVars, loopVars, multiVars, extractVars, toolVars>>

-----------------------------------------------------------------------------
(* Bounds of the model *)

\* longest prose before and behind the payload of a model response, in tokens
MaxProse == 1

\* longest portfolio_allocation the model proposes
MaxEntries == 2

\* largest max_iterations / recursion_limit a run is configured with
MaxIterations == 2

\* most tool calls in one proposal
MaxCalls == 2

\* longest final answer, in tokens
MaxTokens == 3

\* most web results of one crawl
MaxNews == 2

\* most calls of ingest_and_search_qdrant on one collection
MaxIngests == 2

-----------------------------------------------------------------------------
(* Program constants *)

\* 1.0 in hundredths: the unit the proposed weights are multiples of
WeightScale == 100

\* the 0.05 of abs(total_weight - 1.0) > 0.05, in hundredths
Tolerance == 5

-----------------------------------------------------------------------------
(* The relational store: table companies *)

NoValue == "none"

Tickers == {"T1", "T2", "TX"}

\* rows of the companies table (TX has no row)
DbTickers == {"T1", "T2"}

DbName(t) == IF t = "T1" THEN "N1" ELSE "N2"

DbSector(t) == IF t = "T1" THEN "S1" ELSE "S2"

\* get_company_info: an error dict when the ticker has no row
get_company_info(ticker) ==
    IF ticker \in DbTickers
    THEN [error |-> FALSE, name |-> DbName(ticker), sector |-> DbSector(ticker)]
    ELSE [error |-> TRUE, name |-> NoValue, sector |-> NoValue]

\* initialization_node: company_infos holds the selected tickers that have a row
LoadCompanyInfos(selected) ==
    [t \in (selected \cap DbTickers) |->
        [name |-> get_company_info(t).name, sector |-> get_company_info(t).sector]]

-----------------------------------------------------------------------------
(* Allocation entries *)

\* a weight is the rational n/d
Weight(n, d) == [n |-> n, d |-> d]

\* keys lists which of the optional keys "weight" and "amount" the entry has
Entry(t, nm, sc, ks, w, a, sh, cp) ==
    [ticker |-> t, name |-> nm, sector |-> sc, keys |-> ks,
     weight |-> IF "weight" \in ks THEN Weight(w, WeightScale) ELSE Weight(0, WeightScale),
     amount |-> IF "amount" \in ks THEN a ELSE 0,
     shares |-> sh, current_price |-> cp]

ProposedNames == {"N1", "NX"}

ProposedSectors == {"S1", "SX"}

ProposedWeights == {0 - 50, 0, 3, 40, 97}

ProposedAmounts == {0, 7}

AllKeys == {"weight", "amount"}

\* what the model may put into portfolio_allocation
EntryPool ==
    {Entry(t, nm, sc, AllKeys, 60, 7, 5, 1) :
        t \in Tickers, nm \in ProposedNames, sc \in ProposedSectors}
    \cup {Entry(t, "NX", "SX", AllKeys, w, 7, 5, 1) :
        t \in {"T1", "TX"}, w \in ProposedWeights}
    \cup {Entry("T1", "NX", "SX", ks, 60, a, 5, 1) :
        ks \in SUBSET AllKeys, a \in ProposedAmounts}

SeqsUpTo(S, n) == UNION {[1..k -> S] : k \in 0..n}

Allocations == SeqsUpTo(EntryPool, MaxEntries)

\* stock.get("weight", 0)
GetWeight(stock) == IF "weight" \in stock.keys THEN stock.weight.n ELSE 0

\* stock.get("amount", 0)
GetAmount(stock) == IF "amount" \in stock.keys THEN stock.amount ELSE 0

RECURSIVE SumWeight(_)
SumWeight(alloc) ==
    IF alloc = <<>> THEN 0 ELSE GetWeight(Head(alloc)) + SumWeight(Tail(alloc))

Abs(x) == IF x < 0 THEN 0 - x ELSE x

-----------------------------------------------------------------------------
(* The validators *)

Returned(alloc) == [status |-> "returned", alloc |-> alloc]

\* an exception left the validator: no payload is produced
Raised == [status |-> "raised", alloc |-> <<>>]

\* validate_portfolio_json, per item: name and sector forced to the row's values
ValidateItem(item) ==
    LET correct_info == get_company_info(item.ticker)
    IN  IF ~correct_info.error
        THEN [item EXCEPT !.name = correct_info.name, !.sector = correct_info.sector]
        ELSE item

\* validate_portfolio_json on parsed data: every item stays in the list
validate_portfolio_json(alloc) ==
    Returned([i \in 1..Len(alloc) |-> ValidateItem(alloc[i])])

\* validation_node of the linear graph, per stock
ValidateStockLinear(stock, infos) ==
    IF stock.ticker \in DOMAIN infos
    THEN [stock EXCEPT !.name = infos[stock.ticker].name,
                       !.sector = infos[stock.ticker].sector]
    ELSE stock

\* validation_node of the linear graph: every stock stays in the list
validation_node_linear(alloc, infos) ==
    Returned([i \in 1..Len(alloc) |-> ValidateStockLinear(alloc[i], infos)])

\* multi-agent validation_node: the shares recomputed from the live price
RecomputeShares(stock, db_price) ==
    IF GetAmount(stock) > 0 /\ db_price > 0
    THEN GetAmount(stock) \div db_price
    ELSE stock.shares

\* multi-agent validation_node: the live price written into a stock
UpdatePrice(stock, prices) ==
    IF stock.ticker \in DOMAIN prices /\ prices[stock.ticker] # 0
    THEN [stock EXCEPT !.current_price = prices[stock.ticker],
                       !.shares = RecomputeShares(stock, prices[stock.ticker])]
    ELSE stock

\* ForceIdentity that corrects the name and leaves the proposed sector
ForceIdentityNameOnly(stock, infos) ==
    [stock EXCEPT !.name = infos[stock.ticker].name]

\* multi-agent validation_node: name and sector forced to company_infos' values
ForceIdentity(stock, infos) ==
    [stock EXCEPT !.name = infos[stock.ticker].name,
                  !.sector = infos[stock.ticker].sector]

\* multi-agent validation_node: is the stock kept
IsKnown(stock, infos) == stock.ticker \in DOMAIN infos

\* multi-agent validation_node, the for loop: known stocks corrected, the others left out
RECURSIVE ValidatedPortfolio(_, _, _)
ValidatedPortfolio(portfolio, infos, prices) ==
    IF portfolio = <<>> THEN <<>>
    ELSE LET stock == Head(portfolio)
             rest == ValidatedPortfolio(Tail(portfolio), infos, prices)
         IN  IF IsKnown(stock, infos)
             THEN <<UpdatePrice(ForceIdentity(stock, infos), prices)>> \o rest
             ELSE rest

\* NeedsNormalize with a tolerance of 0.5 in place of 0.05
NeedsNormalizeLoose(total_weight) ==
    Abs(total_weight - WeightScale) > Tolerance * 10 /\ total_weight > 0

\* multi-agent validation_node: does the weight total call for renormalization
NeedsNormalize(total_weight) ==
    Abs(total_weight - WeightScale) > Tolerance /\ total_weight > 0

\* Normalize that divides by 1.0 in place of total_weight
NormalizeByOne(validated_portfolio, total_weight) ==
    IF \E i \in 1..Len(validated_portfolio) : "weight" \notin validated_portfolio[i].keys
    THEN Raised
    ELSE Returned(validated_portfolio)

\* multi-agent validation_node: stock["weight"] / total_weight, (n/WeightScale)/(total/WeightScale)
Normalize(validated_portfolio, total_weight) ==
    IF \E i \in 1..Len(validated_portfolio) : "weight" \notin validated_portfolio[i].keys
    THEN Raised    \* KeyError: 'weight'
    ELSE Returned([i \in 1..Len(validated_portfolio) |->
            [validated_portfolio[i] EXCEPT !.weight = Weight(@.n, total_weight)]])

\* multi-agent validation_node
validation_node_multi(portfolio, infos, prices) ==
    LET validated_portfolio == ValidatedPortfolio(portfolio, infos, prices)
        total_weight == SumWeight(validated_portfolio)
    IN  IF NeedsNormalize(total_weight)
        THEN Normalize(validated_portfolio, total_weight)
        ELSE Returned(validated_portfolio)

-----------------------------------------------------------------------------
(* Final-answer text.  A text is a sequence of tokens: prose, whitespace, the   *)
(* opening fence ```json, a bare fence ```, the serialization of a JSON object, *)
(* or malformed JSON.                                                           *)

\* a JSON object (a dict once parsed): its top-level keys, the list under
\* "portfolio_allocation" and the kind of string under "ai_summary"
Payload(ks, alloc) ==
    [type |-> "dict", keys |-> ks,
     alloc |-> IF "portfolio_allocation" \in ks THEN alloc ELSE <<>>,
     ai_summary |-> NoValue]

\* kinds of summary strings: plain text, text with an apostrophe (don't), text with a
\* comma before a closing bracket ([1, 2,])
SummaryKinds == {"plain", "apostrophe", "comma_bracket"}

\* a JSON object with an "ai_summary" string
SummaryPayload(ks, alloc, summary) ==
    [Payload(ks \cup {"ai_summary"}, alloc) EXCEPT !.ai_summary = summary]

NoPayload == Payload({}, <<>>)

\* what json.loads makes of a JSON array such as [1, 2]: a non-empty list
ArrayValue == [NoPayload EXCEPT !.type = "list"]

Token(k, v) == [k |-> k, v |-> v]

Prose == Token("prose", NoPayload)

Space == Token("ws", NoPayload)

OpenFence == Token("open", NoPayload)

Fence == Token("fence", NoPayload)

BadJson == Token("bad", NoPayload)

\* a valid JSON document that is no object: the array [1, 2]
JsonArray == Token("json_array", ArrayValue)

\* json.dumps(data)
Dumps(data) == Token("json", data)

\* the object written with single-quoted strings, as Python prints a dict
SingleQuoted(data) == Token("json_sq", data)

\* the object written with a comma before a closing bracket
TrailingComma(data) == Token("json_tc", data)

\* the allocations a final answer carries: a known ticker under a wrong name,
\* and an unknown ticker
AnswerAllocation ==
    <<Entry("T1", "NX", "SX", AllKeys, 60, 7, 5, 1), Entry("TX", "NX", "SX", AllKeys, 40, 7, 5, 1)>>

AnswerPayloads ==
    {Payload({"portfolio_allocation"}, AnswerAllocation),
     Payload({"error", "portfolio_allocation"}, AnswerAllocation),
     NoPayload}

TokenPool == {Prose, Space, OpenFence, Fence, BadJson} \cup {Dumps(d) : d \in AnswerPayloads}

Texts == SeqsUpTo(TokenPool, MaxTokens)

\* str.find("```json"): index of the first opening fence, 0 when there is none (-1)
FindOpen(text) ==
    IF \E i \in 1..Len(text) : text[i].k = "open"
    THEN CHOOSE i \in 1..Len(text) :
            text[i].k = "open" /\ \A j \in 1..(i - 1) : text[j].k # "open"
    ELSE 0

\* str.find("```", start + 7): the first ``` behind the token at start, 0 when none;
\* an opening fence starts with ``` too
FindFence(text, start) ==
    IF \E i \in (start + 1)..Len(text) : text[i].k \in {"open", "fence"}
    THEN CHOOSE i \in (start + 1)..Len(text) :
            /\ text[i].k \in {"open", "fence"}
            /\ \A j \in (start + 1)..(i - 1) : text[j].k \notin {"open", "fence"}
    ELSE 0

\* str.strip()
RECURSIVE Strip(_)
Strip(text) ==
    IF text = <<>> THEN <<>>
    ELSE IF Head(text).k = "ws" THEN Strip(Tail(text))
    ELSE IF text[Len(text)].k = "ws" THEN Strip(SubSeq(text, 1, Len(text) - 1))
    ELSE text

ParseError == [ok |-> FALSE, data |-> NoPayload]

\* json.loads: succeeds on one JSON document, surrounded by whitespace at most
Loads(text) ==
    IF Len(Strip(text)) = 1 /\ Strip(text)[1].k \in {"json", "json_array"}
    THEN [ok |-> TRUE, data |-> Strip(text)[1].v]
    ELSE ParseError

\* Python truthiness of a parsed value: {} is falsy, a non-empty list is truthy
Truthy(parsed) == parsed.ok /\ (parsed.data.type = "list" \/ parsed.data.keys # {})

\* validate_portfolio_json on a string: the error dict on a parse failure
ValidateJsonStr(json_str) ==
    IF ~Loads(json_str).ok
    THEN [ok |-> TRUE, data |-> Payload({"error"}, <<>>)]
    ELSE LET data == Loads(json_str).data
         IN  [ok |-> TRUE,
              data |-> [data EXCEPT !.alloc = validate_portfolio_json(data.alloc).alloc]]

\* run_portfolio_agent, final answer: is the validated block spliced into the report
BlockAccepted(validated_data) == "error" \notin validated_data.keys

\* run_portfolio_agent, final answer: final_report from final_content
FinalReport(final_content) ==
    LET json_start == FindOpen(final_content)
        json_end == FindFence(final_content, json_start)
    IN  IF json_start # 0 /\ json_end # 0
        THEN LET json_str == Strip(SubSeq(final_content, json_start + 1, json_end - 1))
                 validated_data == ValidateJsonStr(json_str).data
             IN  IF BlockAccepted(validated_data)
                 THEN SubSeq(final_content, 1, json_start)
                        \o <<Dumps(validated_data)>>
                        \o SubSeq(final_content, json_end, Len(final_content))
                 ELSE final_content
        ELSE final_content

\* str.replace("'", '"') on one token: single-quoted strings become JSON strings, a
\* JSON string holding an apostrophe is cut in two
QuoteRepairToken(tok) ==
    IF tok.k \in {"json", "json_sq", "json_tc"}
    THEN IF tok.v.ai_summary = "apostrophe" THEN Token("bad", NoPayload)
         ELSE IF tok.k = "json_sq" THEN Token("json", tok.v)
         ELSE tok
    ELSE tok

\* re.sub(r',(\s*[}\]])', r'\1', ...) on one token: trailing commas go, and so does
\* a comma before a bracket inside a string
CommaRepairToken(tok) ==
    IF tok.k \in {"json", "json_sq", "json_tc"}
    THEN LET v == IF tok.v.ai_summary = "comma_bracket"
                  THEN [tok.v EXCEPT !.ai_summary = "comma_bracket_stripped"]
                  ELSE tok.v
         IN  Token(IF tok.k = "json_tc" THEN "json" ELSE tok.k, v)
    ELSE tok

\* json_str.replace("'", '"')
QuoteRepair(text) == [i \in 1..Len(text) |-> QuoteRepairToken(text[i])]

\* re.sub(r',(\s*[}\]])', r'\1', json_str_fixed)
CommaRepair(text) == [i \in 1..Len(text) |-> CommaRepairToken(text[i])]

\* the text between the fences, the whole text when a fence is missing
BlockOrText(text) ==
    LET json_start == FindOpen(text)
        json_end == FindFence(text, json_start)
    IN  IF json_start # 0 /\ json_end # 0
        THEN Strip(SubSeq(text, json_start + 1, json_end - 1))
        ELSE text

\* the specialists' parse: json.loads of the block or of the whole text
specialist_parse(text) == Loads(BlockOrText(text))

\* supervisor_node: both repairs, then json.loads, on the block or the whole text
supervisor_parse(text) ==
    Loads(CommaRepair(QuoteRepair(BlockOrText(text))))

\* analysis_node of the linear graph: no block, no payload; json.loads of the block,
\* on failure after the quote repair, on failure after the comma repair as well
analysis_parse(text) ==
    LET json_start == FindOpen(text)
        json_end == FindFence(text, json_start)
        json_str == Strip(SubSeq(text, json_start + 1, json_end - 1))
    IN  IF json_start = 0 \/ json_end = 0 THEN ParseError
        ELSE IF Loads(json_str).ok THEN Loads(json_str)
        ELSE IF Loads(QuoteRepair(json_str)).ok THEN Loads(QuoteRepair(json_str))
        ELSE Loads(CommaRepair(QuoteRepair(json_str)))

\* analyze_portfolio, step 1: re.search(r'```json\s*([\s\S]*?)\s*```') and json.loads
ParseBlock(report_text) ==
    LET json_start == FindOpen(report_text)
        json_end == FindFence(report_text, json_start)
    IN  IF json_start # 0 /\ json_end # 0
        THEN Loads(SubSeq(report_text, json_start + 1, json_end - 1))
        ELSE ParseError

\* analyze_portfolio, step 3: the default payload
DefaultData == Payload({"portfolio_allocation"}, <<>>)

\* analyze_portfolio, steps 1 to 3: the data the response is built from
ExtractData(report_text) ==
    IF Truthy(ParseBlock(report_text)) THEN ParseBlock(report_text).data
    ELSE IF Truthy(Loads(report_text)) THEN Loads(report_text).data
    ELSE DefaultData

-----------------------------------------------------------------------------
(* Tool calls and transcripts *)

\* a tool call of a proposal; fault: the data store fails while this call's body runs
Call(id, name, args, fault) == [id |-> id, name |-> name, args |-> args, fault |-> fault]

NoId == <<0, 0>>

Msg(role, content, tool_calls, tool_call_id, name) ==
    [role |-> role, content |-> content, tool_calls |-> tool_calls,
     tool_call_id |-> tool_call_id, name |-> name]

UserMsg == Msg("user", "request", <<>>, NoId, NoValue)

AssistantMsg(content, tool_calls) == Msg("assistant", content, tool_calls, NoId, NoValue)

ToolMsg(content, tool_call_id, name) == Msg("tool", content, <<>>, tool_call_id, name)

\* DumpsResult that cuts the result off
DumpsResultTruncated(res) == <<"json", "truncated">>

\* json.dumps(result, ensure_ascii=False): the JSON text of a tool's result
DumpsResult(res) == <<"json", res>>

\* str(result): the repr of a tool's result
StrResult(res) == <<"repr", res>>

\* f"Error: {e}" and f"Error: Tool '{tool_name}' not found.": a plain error text
ErrorText(kind) == <<"text", kind>>

\* the result a serialized payload stands for
Decoded(content) == content[2]

\* results that tell the model the call failed
ErrorResults == {"error_result", "error_exec", "error_unknown"}

\* payloads of a tool result that tell the model the call failed
ErrorContents ==
    {DumpsResult(r) : r \in ErrorResults} \cup {StrResult(r) : r \in ErrorResults}
        \cup {ErrorText(r) : r \in ErrorResults}

\* TOOLS: the "required" list of each input_schema
ToolRequired ==
    [get_stock_prices |-> {"ticker"},
     get_financial_metrics |-> {"ticker"},
     get_technical_signals |-> {"ticker"},
     get_company_info |-> {"ticker"},
     calculate_correlation |-> {"tickers"},
     get_stocks_by_sector |-> {"sectors"},
     calculate_portfolio_performance |-> {"tickers", "weights"}]

\* the parameters of the tool functions' signatures
ToolParams ==
    [get_stock_prices |-> {"ticker", "days"},
     get_financial_metrics |-> {"ticker", "quarters"},
     get_technical_signals |-> {"ticker"},
     get_company_info |-> {"ticker"},
     calculate_correlation |-> {"tickers"},
     get_stocks_by_sector |-> {"sectors"},
     calculate_portfolio_performance |-> {"tickers", "weights"}]

\* ArgsBind of tool functions whose parameters all have defaults
ArgsBindDefaults(tool_name, tool_input) ==
    tool_input \subseteq ToolParams[tool_name]

\* f(**tool_input) binds: every parameter without default is given, no unknown keyword
ArgsBind(tool_name, tool_input) ==
    /\ ToolRequired[tool_name] \subseteq tool_input
    /\ tool_input \subseteq ToolParams[tool_name]

Outcome(content, ran, propagated) ==
    [content |-> content, ran |-> ran, propagated |-> propagated]

\* execute_tool without its try/except around the tool body
execute_tool_uncaught(tool_call) ==
    IF tool_call.name \notin DOMAIN ToolRequired
    THEN Outcome("error_unknown", FALSE, FALSE)
    ELSE IF ~ArgsBind(tool_call.name, tool_call.args)
    THEN Outcome("error_exec", FALSE, TRUE)
    ELSE IF tool_call.fault
    THEN Outcome("error_exec", TRUE, TRUE)
    ELSE Outcome("ok", TRUE, FALSE)

\* execute_tool: the tool's result, whether its body ran, whether an exception escaped
execute_tool(tool_call) ==
    IF tool_call.name \notin DOMAIN ToolRequired
    THEN Outcome("error_unknown", FALSE, FALSE)
    ELSE IF ~ArgsBind(tool_call.name, tool_call.args)
    THEN Outcome("error_exec", FALSE, FALSE)     \* TypeError before the body, caught
    ELSE IF tool_call.fault
    THEN Outcome("error_exec", TRUE, FALSE)      \* the body raised, caught
    ELSE Outcome("ok", TRUE, FALSE)

\* RunTools that appends the results from the last call to the first
RunToolsReversed(tool_calls) ==
    LET n == Len(tool_calls)
        rev == [i \in 1..n |-> tool_calls[n + 1 - i]]
    IN  [tool_results |->
            [i \in 1..n |->
                ToolMsg(DumpsResult(execute_tool(rev[i]).content), rev[i].id, rev[i].name)],
         ran |-> SelectSeq([i \in 1..n |-> tool_calls[i].id],
                           LAMBDA id : \E i \in 1..n :
                               tool_calls[i].id = id /\ execute_tool(tool_calls[i]).ran),
         propagated |-> FALSE]

\* run_portfolio_agent, the for loop over response.tool_calls
RECURSIVE RunTools(_)
RunTools(tool_calls) ==
    IF tool_calls = <<>>
    THEN [tool_results |-> <<>>, ran |-> <<>>, propagated |-> FALSE]
    ELSE LET tool_call == Head(tool_calls)
             out == execute_tool(tool_call)
             rest == RunTools(Tail(tool_calls))
         IN  IF out.propagated
             THEN [tool_results |-> <<>>,
                   ran |-> IF out.ran THEN <<tool_call.id>> ELSE <<>>,
                   propagated |-> TRUE]
             ELSE [tool_results |->
                        <<ToolMsg(DumpsResult(out.content), tool_call.id, tool_call.name)>>
                            \o rest.tool_results,
                   ran |-> (IF out.ran THEN <<tool_call.id>> ELSE <<>>) \o rest.ran,
                   propagated |-> rest.propagated]

\* LoopContinues with <= in place of <
LoopContinuesInclusive(it, max) == it <= max

\* run_portfolio_agent: the while condition
LoopContinues(it, max) == it < max

\* run_portfolio_agent: the dicts it returns
NoResult == [success |-> FALSE, error |-> "none", iterations |-> 0, final_report |-> <<>>]

\* LLMFailure that reports the iterations completed before the failing one
LLMFailureCountsCompleted(it) ==
    [success |-> FALSE, error |-> "llm", iterations |-> it - 1, final_report |-> <<>>]

LLMFailure(it) ==
    [success |-> FALSE, error |-> "llm", iterations |-> it, final_report |-> <<>>]

\* SuccessResult that reports the iterations completed before this one
SuccessResultCountsFromZero(it, final_report) ==
    [success |-> TRUE, error |-> "none", iterations |-> it - 1, final_report |-> final_report]

SuccessResult(it, final_report) ==
    [success |-> TRUE, error |-> "none", iterations |-> it, final_report |-> final_report]

ForcedResult(it) ==
    [success |-> FALSE, error |-> "max_iterations", iterations |-> it, final_report |-> <<>>]

\* available_tools of agents/tools.py, with the parameter each takes
AvailableTools ==
    [get_sector_etf_momentum |-> {"sector_name"},
     search_realtime_news_tavily |-> {"query"},
     ingest_and_search_qdrant |-> {"sector_name"}]

\* t.invoke(tool_args): the arguments are checked against the tool's schema, then the
\* body runs; the three tools catch what their bodies raise and return an error dict
InvokeTool(tool_call) ==
    IF tool_call.args # AvailableTools[tool_call.name]
    THEN Outcome("error_exec", FALSE, TRUE)      \* validation error, raised
    ELSE IF tool_call.fault
    THEN Outcome("error_result", TRUE, FALSE)
    ELSE Outcome("ok", TRUE, FALSE)

\* tool_executor_node: the messages appended for one call
CallMessages(call) ==
    IF call.name \in DOMAIN AvailableTools
    THEN IF InvokeTool(call).propagated
         THEN <<ToolMsg(ErrorText("error_exec"), call.id, NoValue),
                ToolMsg(ErrorText("error_unknown"), call.id, NoValue)>>   \* found_tool stays False
         ELSE <<ToolMsg(StrResult(InvokeTool(call).content), call.id, NoValue)>>
    ELSE <<ToolMsg(ErrorText("error_unknown"), call.id, NoValue)>>

\* tool_executor_node: the slot a successful call's result is stored in
SlotOf(tool_name) ==
    IF tool_name = "get_sector_etf_momentum" THEN "momentum_result"
    ELSE IF tool_name = "search_realtime_news_tavily" THEN "realtime_news_result"
    ELSE IF tool_name = "search_sector_news_qdrant" THEN "historical_news_result"
    ELSE NoValue

SlotNames == {"momentum_result", "realtime_news_result", "historical_news_result"}

EmptySlots == [s \in SlotNames |-> NoId]

\* tool_executor_node: does the call return a result to store
Succeeds(call) ==
    call.name \in DOMAIN AvailableTools /\ ~InvokeTool(call).propagated

\* tool_executor_node, the for loop over tool_calls
RECURSIVE ExecuteCalls(_, _)
ExecuteCalls(tool_calls, sl) ==
    IF tool_calls = <<>>
    THEN [tool_messages |-> <<>>, ran |-> <<>>, slots |-> sl]
    ELSE LET call == Head(tool_calls)
             sl1 == IF Succeeds(call) /\ SlotOf(call.name) \in SlotNames
                    THEN [sl EXCEPT ![SlotOf(call.name)] = call.id]
                    ELSE sl
             rest == ExecuteCalls(Tail(tool_calls), sl1)
             ran == IF call.name \in DOMAIN AvailableTools /\ InvokeTool(call).ran
                    THEN <<call.id>> ELSE <<>>
         IN  [tool_messages |-> CallMessages(call) \o rest.tool_messages,
              ran |-> ran \o rest.ran,
              slots |-> rest.slots]

\* router_node that looks at the tool calls only, never at the limit
router_node_unbounded(iteration_count, recursion_limit, last_message) ==
    IF last_message.role = "tool" \/ last_message.tool_calls # <<>>
    THEN "tool_executor"
    ELSE "portfolio_optimizer"

\* router_node: the node that follows the coordinator
router_node(iteration_count, recursion_limit, last_message) ==
    IF iteration_count >= recursion_limit THEN "portfolio_optimizer"
    ELSE IF last_message.role = "tool" \/ last_message.tool_calls # <<>>
    THEN "tool_executor"
    ELSE "portfolio_optimizer"

-----------------------------------------------------------------------------
(* What the model client may propose *)

CallShape(name, args, fault) == [name |-> name, args |-> args, fault |-> fault]

\* calls proposed to run_portfolio_agent: a valid call, one whose body hits a data-store
\* error, one lacking the required "weights", one naming no tool
SingleShapes ==
    {CallShape("get_company_info", {"ticker"}, FALSE),
     CallShape("get_company_info", {"ticker"}, TRUE),
     CallShape("calculate_portfolio_performance", {"tickers"}, FALSE),
     CallShape("no_such_tool", {}, FALSE)}

\* calls proposed to the coordinator graph; search_sector_news_qdrant is the name its
\* prompt advertises
GraphShapes ==
    {CallShape("get_sector_etf_momentum", {"sector_name"}, FALSE),
     CallShape("get_sector_etf_momentum", {"sector_name"}, TRUE),
     CallShape("get_sector_etf_momentum", {}, FALSE),
     CallShape("ingest_and_search_qdrant", {"sector_name"}, FALSE),
     CallShape("search_sector_news_qdrant", {"sector_name"}, FALSE)}

\* the proposals of round it: 1 to MaxCalls calls, ids unique within the proposal
Proposals(shapes, it) ==
    {[i \in DOMAIN sh |-> Call(<<it, i>>, sh[i].name, sh[i].args, sh[i].fault)] :
        sh \in UNION {[1..k -> shapes] : k \in 1..MaxCalls}}

-----------------------------------------------------------------------------
(* The multi-agent graph: initialization, the three specialists side by side, *)
(* aggregator, supervisor, validation                                         *)

Specialists == {"financial_agent", "technical_agent", "news_agent"}

\* AnalysisSlot of specialists that all return the key "financial_analysis"
AnalysisSlotShared(agent) == "financial_analysis"

\* the key of the dict a specialist returns
AnalysisSlot(agent) ==
    IF agent = "financial_agent" THEN "financial_analysis"
    ELSE IF agent = "technical_agent" THEN "technical_analysis"
    ELSE "news_analysis"

AnalysisSlots == {"financial_analysis", "technical_analysis", "news_analysis"}

\* tickers with rows in fin_metrics, resp. signals_latest
FinTickers == {"T1"}

TechTickers == {"T1", "T2"}

\* initialization_node: one dict per loaded ticker that has rows; a dict is modelled
\* by the set of its keys
LoadMetrics(infos, rows, key) == [t \in (DOMAIN infos \cap rows) |-> {key}]

\* the specialists' "for ticker, data in ...items()" loop: keys added to each dict
Enrich(data, prices, infos, price_keys) ==
    [t \in DOMAIN data |->
        data[t] \cup (IF t \in DOMAIN prices THEN price_keys ELSE {})
                \cup (IF t \in DOMAIN infos THEN {"name", "sector"} ELSE {})]

\* stock_prices.get(ticker, {}).get("current_price"): None is modelled by -1
PriceOrNone(prices, t) == IF t \in DOMAIN prices THEN prices[t] ELSE 0 - 1

\* news_agent_node: company_data, built from company_infos and stock_prices
CompanyData(infos, prices) ==
    [t \in DOMAIN infos |->
        [name |-> infos[t].name, sector |-> infos[t].sector,
         current_price |-> PriceOrNone(prices, t)]]

\* what the model client answers a specialist
AnalysisPayload == Payload({"analysis_summary"}, <<>>)

SpecialistTexts ==
    {<<Prose, OpenFence, Dumps(AnalysisPayload), Fence>>, <<Dumps(AnalysisPayload)>>, <<Prose>>}

SpecialistResponses ==
    {[raises |-> TRUE, text |-> <<>>]} \cup {[raises |-> FALSE, text |-> t] : t \in SpecialistTexts}

\* the dict a specialist uses when json.loads fails
ParseFailure == Payload({"analysis_summary", "ticker_scores"}, <<>>)

\* a specialist's analysis: the parsed answer to the prompt it sent
Analysis(text, prompt) ==
    [analysis |-> IF specialist_parse(text).ok
                  THEN specialist_parse(text).data
                  ELSE ParseFailure,
     prompt |-> prompt]

NoAnalysis == [analysis |-> NoPayload, prompt |-> <<>>]

\* the writes of a superstep applied to the slots, in the order the nodes returned
RECURSIVE ApplyUpdates(_, _)
ApplyUpdates(sl, ups) ==
    IF ups = <<>> THEN sl
    ELSE ApplyUpdates([sl EXCEPT ![Head(ups).slot] = Head(ups).value], Tail(ups))

\* Barrier that lets the aggregator run as soon as one specialist has returned
BarrierAny(ag) == \E a \in Specialists : ag[a] = "done"

\* the aggregator's trigger: the superstep of the three specialists is over
Barrier(ag) == \A a \in Specialists : ag[a] = "done"

\* what the model client answers the supervisor
SupervisorTexts ==
    {<<Prose, OpenFence, Dumps(Payload({"portfolio_allocation"}, AnswerAllocation)), Fence>>,
     <<Prose>>}

\* supervisor_node: state["portfolio_allocation"]
SupervisorAllocation(text) ==
    IF supervisor_parse(text).ok
    THEN supervisor_parse(text).data.alloc
    ELSE <<>>

-----------------------------------------------------------------------------
(* The validation runs *)

Variants == {"anthropic", "langgraph", "multi"}

\* the tickers of a request (sectors and explicit tickers)
Selections == {{"T1"}, {"T1", "T2", "TX"}}

\* current_price of get_stock_prices for T1: no price rows, a zero close, a positive close
PriceSnapshots == {<<>>, [t \in {"T1"} |-> 0], [t \in {"T1"} |-> 2]}

NotValidated == [status |-> "none", alloc |-> <<>>]

NoHttp == [status |-> "none", alloc |-> <<>>, iterations |-> 0]

\* no validation run is under way
ValIdle ==
    /\ variant = "none"
    /\ company_infos = <<>>
    /\ stock_prices = <<>>
    /\ portfolio_allocation = <<>>
    /\ validated = NotValidated
    /\ vpc = "idle"

\* no agent loop is under way
LoopIdle ==
    /\ engine = "none"
    /\ max_iterations = 0
    /\ iteration = 0
    /\ messages = <<>>
    /\ last_response = "none"
    /\ model_calls = 0
    /\ executions = <<>>
    /\ slots = EmptySlots
    /\ pc = "idle"
    /\ exception = "none"
    /\ result = NoResult
    /\ http = NoHttp

\* no run of the multi-agent graph is under way
MultiIdle ==
    /\ mpc = "idle"
    /\ agents = [a \in Specialists |-> "idle"]
    /\ responses = [a \in Specialists |-> [raises |-> FALSE, text |-> <<>>]]
    /\ financial_metrics = <<>>
    /\ technical_signals = <<>>
    /\ prompts = [a \in Specialists |-> <<>>]
    /\ updates = <<>>
    /\ analyses = [sl \in AnalysisSlots |-> NoAnalysis]
    /\ supervisor_runs = 0

\* no extraction is under way
ExtractIdle ==
    /\ extractor = "none"
    /\ response_text = <<>>
    /\ extracted = ParseError
    /\ xpc = "idle"

\* no ingest call was made
IngestIdle ==
    /\ sentiment_analyzer = "none"
    /\ collection = {}
    /\ uuid_count = 0
    /\ ingest_log = <<>>

\* no scoring or performance tool is being called
CallIdle ==
    /\ fn = "none"
    /\ fn_input = NoValue
    /\ fn_output = NoValue
    /\ fpc = "idle"

ToolsIdle == IngestIdle /\ CallIdle

InitVal ==
    /\ variant \in Variants
    /\ \E selected \in Selections : company_infos = LoadCompanyInfos(selected)
    /\ stock_prices \in PriceSnapshots
    /\ portfolio_allocation \in Allocations
    /\ validated = NotValidated
    /\ vpc = "extracted"
    /\ LoopIdle /\ MultiIdle /\ ExtractIdle /\ ToolsIdle

ValidateAnthropic ==
    /\ vpc = "extracted" /\ variant = "anthropic"
    /\ validated' = validate_portfolio_json(portfolio_allocation)
    /\ vpc' = "validated"
    /\ UNCHANGED <<variant, company_infos, stock_prices, portfolio_allocation, loopVars,
                   multiVars, extractVars, toolVars>>

ValidateLinear ==
    /\ vpc = "extracted" /\ variant = "langgraph"
    /\ validated' = validation_node_linear(portfolio_allocation, company_infos)
    /\ vpc' = "validated"
    /\ UNCHANGED <<variant, company_infos, stock_prices, portfolio_allocation, loopVars,
                   multiVars, extractVars, toolVars>>

ValidateMulti ==
    /\ vpc = "extracted" /\ variant = "multi"
    /\ validated' = validation_node_multi(portfolio_allocation, company_infos, stock_prices)
    /\ vpc' = "validated"
    /\ mpc' = IF mpc = "validation" THEN "end" ELSE mpc
    /\ UNCHANGED <<variant, company_infos, stock_prices, portfolio_allocation, loopVars,
                   agents, responses, financial_metrics, technical_signals, prompts, updates,
                   analyses, supervisor_runs, extractVars, toolVars>>

NextVal == ValidateAnthropic \/ ValidateLinear \/ ValidateMulti

SpecVal == InitVal /\ [][NextVal]_vars

-----------------------------------------------------------------------------
(* run_portfolio_agent and analyze_portfolio *)

InitRun(e, start) ==
    /\ engine = e
    /\ max_iterations \in 1..MaxIterations
    /\ iteration = 0
    /\ messages = <<UserMsg>>
    /\ last_response = "none"
    /\ model_calls = 0
    /\ executions = <<>>
    /\ slots = EmptySlots
    /\ pc = start
    /\ exception = "none"
    /\ result = NoResult
    /\ http = NoHttp

AtLoopHead == engine = "single" /\ pc = "loop"

\* an iteration whose llm_with_tools.invoke raises
LLMFails ==
    /\ AtLoopHead /\ LoopContinues(iteration, max_iterations)
    /\ iteration' = iteration + 1
    /\ model_calls' = model_calls + 1
    /\ last_response' = "failed"
    /\ result' = LLMFailure(iteration')
    /\ pc' = "returned"
    /\ UNCHANGED <<engine, max_iterations, messages, executions, slots, exception, http, valVars, multiVars, extractVars, toolVars>>

\* an iteration whose response has no tool calls; the final answer is one of pool
FinalAnswer(pool) ==
    /\ AtLoopHead /\ LoopContinues(iteration, max_iterations)
    /\ iteration' = iteration + 1
    /\ model_calls' = model_calls + 1
    /\ last_response' = "final"
    /\ \E final_content \in pool :
        result' = SuccessResult(iteration', FinalReport(final_content))
    /\ pc' = "returned"
    /\ UNCHANGED <<engine, max_iterations, messages, executions, slots, exception, http, valVars, multiVars, extractVars, toolVars>>

\* an iteration whose response has tool calls: every call is executed, the results
\* are appended behind the assistant turn
ToolRound ==
    /\ AtLoopHead /\ LoopContinues(iteration, max_iterations)
    /\ iteration' = iteration + 1
    /\ model_calls' = model_calls + 1
    /\ last_response' = "tools"
    /\ \E tool_calls \in Proposals(SingleShapes, iteration') :
        LET run == RunTools(tool_calls)
        IN  /\ executions' = executions \o run.ran
            /\ IF run.propagated
               THEN /\ messages' = Append(messages, AssistantMsg("proposal", tool_calls))
                    /\ exception' = "tool"
                    /\ pc' = "raised"
               ELSE /\ messages' = Append(messages, AssistantMsg("proposal", tool_calls))
                                    \o run.tool_results
                    /\ exception' = exception
                    /\ pc' = "loop"
    /\ UNCHANGED <<engine, max_iterations, slots, result, http, valVars, multiVars, extractVars, toolVars>>

\* the while condition fails: the forced termination
ForcedStop ==
    /\ AtLoopHead /\ ~LoopContinues(iteration, max_iterations)
    /\ result' = ForcedResult(iteration)
    /\ pc' = "returned"
    /\ UNCHANGED <<engine, max_iterations, iteration, messages, last_response, model_calls,
                   executions, slots, exception, http, valVars, multiVars, extractVars, toolVars>>

\* analyze_portfolio: the response built from the agent's result
AnalyzePortfolio ==
    /\ engine = "single" /\ pc = "returned"
    /\ http' = IF result.success
               THEN [status |-> "ok", alloc |-> ExtractData(result.final_report).alloc,
                     iterations |-> result.iterations]
               ELSE [status |-> "error", alloc |-> <<>>, iterations |-> 0]
    /\ pc' = "responded"
    /\ UNCHANGED <<engine, max_iterations, iteration, messages, last_response, model_calls,
                   executions, slots, exception, result, valVars, multiVars, extractVars, toolVars>>

-----------------------------------------------------------------------------
(* The coordinator graph *)

AtCoordinator == engine = "graph" /\ pc = "coordinator"

\* coordinator_node whose llm_with_tools.invoke raises: the exception leaves the graph
CoordinatorFails ==
    /\ AtCoordinator
    /\ iteration' = iteration + 1
    /\ model_calls' = model_calls + 1
    /\ last_response' = "failed"
    /\ exception' = "llm"
    /\ pc' = "raised"
    /\ UNCHANGED <<engine, max_iterations, messages, executions, slots, result, http, valVars, multiVars, extractVars, toolVars>>

\* coordinator_node whose response has tool calls, then router_node
CoordinatorProposes ==
    /\ AtCoordinator
    /\ iteration' = iteration + 1
    /\ model_calls' = model_calls + 1
    /\ last_response' = "tools"
    /\ \E tool_calls \in Proposals(GraphShapes, iteration') :
        /\ messages' = Append(messages, AssistantMsg("proposal", tool_calls))
        /\ pc' = router_node(iteration', max_iterations, AssistantMsg("proposal", tool_calls))
    /\ UNCHANGED <<engine, max_iterations, executions, slots, exception, result, http, valVars, multiVars, extractVars, toolVars>>

\* coordinator_node whose response has no tool calls, then router_node
CoordinatorAnswers ==
    /\ AtCoordinator
    /\ iteration' = iteration + 1
    /\ model_calls' = model_calls + 1
    /\ last_response' = "final"
    /\ messages' = Append(messages, AssistantMsg("answer", <<>>))
    /\ pc' = router_node(iteration', max_iterations, AssistantMsg("answer", <<>>))
    /\ UNCHANGED <<engine, max_iterations, executions, slots, exception, result, http, valVars, multiVars, extractVars, toolVars>>

\* tool_executor_node, then the edge back to the coordinator
ToolExecutor ==
    /\ engine = "graph" /\ pc = "tool_executor"
    /\ LET last_message == messages[Len(messages)]
           run == ExecuteCalls(last_message.tool_calls, slots)
       IN  /\ messages' = messages \o run.tool_messages
           /\ executions' = executions \o run.ran
           /\ slots' = run.slots
    /\ pc' = "coordinator"
    /\ UNCHANGED <<engine, max_iterations, iteration, last_response, model_calls, exception,
                   result, http, valVars, multiVars, extractVars, toolVars>>

\* portfolio_optimizer_node: calculate_comprehensive_scores is defined nowhere, the
\* NameError leaves the graph
PortfolioOptimizer ==
    /\ engine = "graph" /\ pc = "portfolio_optimizer"
    /\ exception' = "NameError"
    /\ pc' = "raised"
    /\ UNCHANGED <<engine, max_iterations, iteration, messages, last_response, model_calls,
                   executions, slots, result, http, valVars, multiVars, extractVars, toolVars>>

-----------------------------------------------------------------------------
(* The steps of the multi-agent graph *)

\* initialization_node: the data of the selected tickers is loaded, then the edges
\* to the three specialists
InitializationNode ==
    /\ mpc = "initialization"
    /\ \E selected \in Selections, prices \in PriceSnapshots :
        /\ company_infos' = LoadCompanyInfos(selected)
        /\ stock_prices' = prices
        /\ financial_metrics' = LoadMetrics(LoadCompanyInfos(selected), FinTickers, "roe")
        /\ technical_signals' = LoadMetrics(LoadCompanyInfos(selected), TechTickers, "rsi14")
    /\ agents' = [a \in Specialists |-> "ready"]
    /\ mpc' = "specialists"
    /\ UNCHANGED <<variant, portfolio_allocation, validated, vpc, responses, prompts, updates,
                   analyses, supervisor_runs, loopVars, extractVars, toolVars>>

\* a specialist up to its llm.invoke: financial_agent_node and technical_agent_node
\* add keys to the dicts of their own table in place, news_agent_node builds
\* company_data; the result goes into the prompt
SpecialistStarts(a) ==
    /\ mpc = "specialists" /\ agents[a] = "ready"
    /\ financial_metrics' =
            IF a = "financial_agent"
            THEN Enrich(financial_metrics, stock_prices, company_infos,
                        {"current_price", "period_return"})
            ELSE financial_metrics
    /\ technical_signals' =
            IF a = "technical_agent"
            THEN Enrich(technical_signals, stock_prices, company_infos,
                        {"current_price", "period_return", "volatility"})
            ELSE technical_signals
    /\ prompts' = [prompts EXCEPT ![a] =
            IF a = "financial_agent" THEN financial_metrics'
            ELSE IF a = "technical_agent" THEN technical_signals'
            ELSE CompanyData(company_infos, stock_prices)]
    /\ agents' = [agents EXCEPT ![a] = "invoking"]
    /\ UNCHANGED <<mpc, responses, updates, analyses, supervisor_runs, valVars, loopVars,
                   extractVars, toolVars>>

\* a specialist from the model's answer on: the answer is parsed and the node returns
\* a dict with one key
SpecialistReturns(a) ==
    /\ mpc = "specialists" /\ agents[a] = "invoking"
    /\ ~responses[a].raises
    /\ updates' = Append(updates, [slot |-> AnalysisSlot(a),
                                   value |-> Analysis(responses[a].text, prompts[a])])
    /\ agents' = [agents EXCEPT ![a] = "done"]
    /\ UNCHANGED <<mpc, responses, financial_metrics, technical_signals, prompts, analyses,
                   supervisor_runs, valVars, loopVars, extractVars, toolVars>>

\* a specialist whose llm.invoke raises: the exception leaves the graph
SpecialistRaises(a) ==
    /\ mpc = "specialists" /\ agents[a] = "invoking"
    /\ responses[a].raises
    /\ agents' = [agents EXCEPT ![a] = "failed"]
    /\ mpc' = "raised"
    /\ UNCHANGED <<responses, financial_metrics, technical_signals, prompts, updates, analyses,
                   supervisor_runs, valVars, loopVars, extractVars, toolVars>>

\* the end of the specialists' superstep: their writes are applied, aggregator_node
\* runs and changes nothing, the edge leads to the supervisor
Aggregator ==
    /\ mpc = "specialists" /\ Barrier(agents)
    /\ analyses' = ApplyUpdates(analyses, updates)
    /\ mpc' = "supervisor"
    /\ UNCHANGED <<agents, responses, financial_metrics, technical_signals, prompts, updates,
                   supervisor_runs, valVars, loopVars, extractVars, toolVars>>

\* supervisor_node: one model invocation, the answer parsed into portfolio_allocation
Supervisor ==
    /\ mpc = "supervisor"
    /\ supervisor_runs' = supervisor_runs + 1
    /\ \E text \in SupervisorTexts : portfolio_allocation' = SupervisorAllocation(text)
    /\ vpc' = "extracted"
    /\ mpc' = "validation"
    /\ UNCHANGED <<variant, company_infos, stock_prices, validated, agents, responses,
                   financial_metrics, technical_signals, prompts, updates, analyses,
                   loopVars, extractVars, toolVars>>

-----------------------------------------------------------------------------
(* The specifications *)

\* final answers of the runs that go through tool rounds
LoopTexts ==
    {<<Prose>>,
     <<OpenFence, Dumps(Payload({"portfolio_allocation"}, AnswerAllocation)), Fence>>}

InitLoop ==
    /\ \/ InitRun("single", "loop")
       \/ InitRun("graph", "coordinator")
    /\ ValIdle /\ MultiIdle /\ ExtractIdle /\ ToolsIdle

NextLoop ==
    \/ LLMFails
    \/ FinalAnswer(LoopTexts)
    \/ ToolRound
    \/ ForcedStop
    \/ AnalyzePortfolio
    \/ CoordinatorFails
    \/ CoordinatorProposes
    \/ CoordinatorAnswers
    \/ ToolExecutor
    \/ PortfolioOptimizer

\* the agent loops, the model client proposing any calls
Spec == InitLoop /\ [][NextLoop]_vars

InitFinal == InitRun("single", "loop") /\ ValIdle /\ MultiIdle /\ ExtractIdle /\ ToolsIdle

NextFinal ==
    \/ FinalAnswer(Texts)
    \/ AnalyzePortfolio

\* run_portfolio_agent and analyze_portfolio, the model client answering at once
\* with any text
SpecFinal == InitFinal /\ [][NextFinal]_vars

InitMulti ==
    /\ variant = "multi"
    /\ company_infos = <<>>
    /\ stock_prices = <<>>
    /\ portfolio_allocation = <<>>
    /\ validated = NotValidated
    /\ vpc = "idle"
    /\ mpc = "initialization"
    /\ agents = [a \in Specialists |-> "idle"]
    /\ responses \in [Specialists -> SpecialistResponses]
    /\ financial_metrics = <<>>
    /\ technical_signals = <<>>
    /\ prompts = [a \in Specialists |-> <<>>]
    /\ updates = <<>>
    /\ analyses = [sl \in AnalysisSlots |-> NoAnalysis]
    /\ supervisor_runs = 0
    /\ LoopIdle /\ ExtractIdle /\ ToolsIdle

NextMulti ==
    \/ InitializationNode
    \/ \E a \in Specialists : SpecialistStarts(a)
    \/ \E a \in Specialists : SpecialistReturns(a)
    \/ \E a \in Specialists : SpecialistRaises(a)
    \/ Aggregator
    \/ Supervisor
    \/ ValidateMulti

\* a request to the multi-agent graph, the specialists interleaved in any order
SpecMulti == InitMulti /\ [][NextMulti]_vars

-----------------------------------------------------------------------------
(* Extraction of the payload from a model response *)

\* the payloads a response carries
ExtractPayloads ==
    {SummaryPayload({"portfolio_allocation"}, AnswerAllocation, k) : k \in SummaryKinds}
        \cup {NoPayload}

\* the documents a response carries: strict JSON, a single-quoted and a
\* trailing-comma rendering, malformed text, a JSON array
DocTokens ==
    {Dumps(d) : d \in ExtractPayloads}
        \cup {SingleQuoted(SummaryPayload({"portfolio_allocation"}, AnswerAllocation, "plain")),
              TrailingComma(SummaryPayload({"portfolio_allocation"}, AnswerAllocation, "plain")),
              BadJson, JsonArray}

\* the prose around the document
Surroundings == SeqsUpTo({Prose, Space, Fence}, MaxProse)

Paddings == {<<>>, <<Space>>}

\* a document within a ```json block
Fenced(doc, w1, w2) == <<OpenFence>> \o w1 \o <<doc>> \o w2 \o <<Fence>>

ResponseTexts ==
    {pre \o body \o post :
        pre \in Surroundings, post \in Surroundings,
        body \in {<<>>} \cup {<<d>> : d \in DocTokens}
                 \cup {Fenced(d, w1, w2) : d \in DocTokens, w1 \in Paddings, w2 \in Paddings}}

Extractors == {"supervisor_node", "analysis_node", "analyze_portfolio"}

\* what each extractor makes of a response: the parsed payload, or no payload (the
\* caller then uses its default)
ExtractedBy(e, text) ==
    IF e = "supervisor_node" THEN supervisor_parse(text)
    ELSE IF e = "analysis_node" THEN analysis_parse(text)
    ELSE IF Truthy(ParseBlock(text)) THEN ParseBlock(text)
    ELSE IF Truthy(Loads(text)) THEN Loads(text)
    ELSE ParseError

\* result.get(...) / data.get(...) on the parsed value: AttributeError when the
\* value is no dict; no except clause of the three callers covers it
GetRaises(parsed) == parsed.ok /\ parsed.data.type # "dict"

InitExtract ==
    /\ extractor \in Extractors
    /\ response_text \in ResponseTexts
    /\ extracted = ParseError
    /\ xpc = "responded"
    /\ ValIdle /\ LoopIdle /\ MultiIdle /\ ToolsIdle

\* the extraction returns: the parsed payload, or no payload and the caller's default
Extract ==
    /\ xpc = "responded"
    /\ ~GetRaises(ExtractedBy(extractor, response_text))
    /\ extracted' = ExtractedBy(extractor, response_text)
    /\ xpc' = "extracted"
    /\ UNCHANGED <<extractor, response_text, valVars, loopVars, multiVars, toolVars>>

\* the extraction raises: the parsed value has no .get
ExtractRaises ==
    /\ xpc = "responded"
    /\ GetRaises(ExtractedBy(extractor, response_text))
    /\ xpc' = "raised"
    /\ UNCHANGED <<extractor, response_text, extracted, valVars, loopVars, multiVars,
                   toolVars>>

NextExtract == Extract \/ ExtractRaises

\* one extraction from any response
SpecExtract == InitExtract /\ [][NextExtract]_vars

-----------------------------------------------------------------------------
(* ingest_and_search_qdrant and the sentiment analyzer *)

\* one web result of the crawl: its description, whether the description is longer
\* than 50 characters, how many keywords of the lexicon it holds
WebItem(text, long, matches) == [text |-> text, long |-> long, matches |-> matches]

WebItems == {WebItem("n1", TRUE, 0), WebItem("n2", TRUE, 6), WebItem("n3", FALSE, 0)}

SectorNames == {"S1", "S2"}

\* what the crawl hands back: a failure (no client, or firecrawl raises), or web results
Crawls == {[ok |-> FALSE, web |-> <<>>]}
            \cup {[ok |-> TRUE, web |-> w] : w \in SeqsUpTo(WebItems, MaxNews)}

\* the descriptions of more than 50 characters
NewsList(web_results) == SelectSeq(web_results, LAMBDA item : item.long)

\* analyze_with_lexicon: sentiment_confidence in hundredths, min(total_matches / 10, 0.95)
LexiconConfidence(news) ==
    IF news.matches = 0 THEN 0
    ELSE IF news.matches * 10 < 95 THEN news.matches * 10 ELSE 95

\* below this confidence (0.6, in hundredths) a news item waits for the second pass
RefineBelow == 60

\* {**news, **result}: the news with the analysis merged in
Analyzed(news, method) == [text |-> news.text, method |-> method]

\* a slot of results that was never filled: Python's None
NoneNews == [text |-> NoValue, method |-> NoValue]

\* llm_client of the sentiment_analyzer singleton: HybridSentimentAnalyzer() sets none
SingletonLlmClient == FALSE

\* FinBERTAnalyzer.available of the singleton
FinbertAvailable == sentiment_analyzer = "finbert"

\* HybridSentimentAnalyzer.analyze_batch: the lexicon first; below the threshold
\* FinBERT when it is available (its own fallback is the lexicon again), else the
\* lexicon again when an llm_client is set, else the slot stays None
analyze_batch(news_list, finbert, llm, inference_ok) ==
    [i \in 1..Len(news_list) |->
        IF LexiconConfidence(news_list[i]) >= RefineBelow
        THEN Analyzed(news_list[i], "lexicon")
        ELSE IF finbert
        THEN Analyzed(news_list[i], IF inference_ok THEN "finbert-kr" ELSE "lexicon")
        ELSE IF llm
        THEN Analyzed(news_list[i], "lexicon")
        ELSE NoneNews]

\* Points with the id taken from the content instead of uuid4
PointsByContent(analyzed_news, sector_name, drawn) ==
    {[id |-> <<"content", analyzed_news[i].text>>, text |-> analyzed_news[i].text,
      sector |-> sector_name] : i \in 1..Len(analyzed_news)}

\* points_to_upsert: one point per analyzed news, its id a fresh uuid4 (the drawn-th
\* draw; two draws never coincide)
Points(analyzed_news, sector_name, drawn) ==
    {[id |-> <<"uuid4", drawn + i>>, text |-> analyzed_news[i].text,
      sector |-> sector_name] : i \in 1..Len(analyzed_news)}

\* qdrant_client.upsert: a point replaces the stored point of the same id
Upsert(coll, points) ==
    {p \in coll : \A q \in points : q.id # p.id} \cup points

\* news['text'] in the loop that builds the points: TypeError on None
Dereferences(analyzed_news) ==
    \E i \in 1..Len(analyzed_news) : analyzed_news[i] = NoneNews

\* what one call of ingest_and_search_qdrant does, given what the crawl, the
\* FinBERT inference and the search do
IngestOutcome(sector_name, crawl, inference_ok, search_ok) ==
    LET news_list == NewsList(crawl.web)
        analyzed_news ==
            IF sentiment_analyzer = "none"
            THEN [i \in 1..Len(news_list) |-> Analyzed(news_list[i], "none")]
            ELSE analyze_batch(news_list, FinbertAvailable, SingletonLlmClient,
                               inference_ok)
        stored == crawl.ok /\ news_list # <<>> /\ ~Dereferences(analyzed_news)
    IN  [sector_name |-> sector_name,
         crawl |-> crawl,
         news_list |-> news_list,
         analyzed_news |-> IF crawl.ok /\ news_list # <<>> THEN analyzed_news ELSE <<>>,
         stored |-> stored,
         points |-> IF stored THEN Points(analyzed_news, sector_name, uuid_count) ELSE {},
         returned |-> IF ~crawl.ok THEN "error"
                      ELSE IF news_list = <<>> THEN "error"
                      ELSE IF ~stored THEN "error"    \* except Exception -> {"error": str(e)}
                      ELSE IF search_ok THEN "results" ELSE "error"]

\* the flags that make no difference are kept at TRUE
Flags(crawl) ==
    {f \in [inference_ok : BOOLEAN, search_ok : BOOLEAN] :
        /\ (f.inference_ok = FALSE =>
                /\ FinbertAvailable
                /\ \E i \in 1..Len(NewsList(crawl.web)) :
                        LexiconConfidence(NewsList(crawl.web)[i]) < RefineBelow)
        /\ (f.search_ok = FALSE =>
                IngestOutcome("S1", crawl, f.inference_ok, TRUE).stored)}

InitIngest ==
    /\ sentiment_analyzer \in {"finbert", "lexicon", "none"}
    /\ collection = {}
    /\ uuid_count = 0
    /\ ingest_log = <<>>
    /\ CallIdle
    /\ ValIdle /\ LoopIdle /\ MultiIdle /\ ExtractIdle

\* one call of the tool ingest_and_search_qdrant
IngestAndSearch ==
    /\ Len(ingest_log) < MaxIngests
    /\ \E sector_name \in SectorNames, crawl \in Crawls :
        \E f \in Flags(crawl) :
            LET out == IngestOutcome(sector_name, crawl, f.inference_ok, f.search_ok)
            IN  /\ collection' = Upsert(collection, out.points)
                /\ uuid_count' = uuid_count + Cardinality(out.points)
                /\ ingest_log' = Append(ingest_log,
                        [out EXCEPT !.points = Cardinality(@)]
                            @@ [before |-> Cardinality(collection),
                                after |-> Cardinality(Upsert(collection, out.points))])
    /\ UNCHANGED <<sentiment_analyzer, callVars, valVars, loopVars, multiVars, extractVars>>

NextIngest == IngestAndSearch

\* successive calls of ingest_and_search_qdrant on one collection
SpecIngest == InitIngest /\ [][NextIngest]_vars

-----------------------------------------------------------------------------
(* The scoring tools and calculate_portfolio_performance *)

Min(a, b) == IF a < b THEN a ELSE b

Max(a, b) == IF a > b THEN a ELSE b

\* scores are kept in thirtieths of a point, which keeps roe / 15 * 100 integral
ScoreScale == 30

\* the latest row of fin_metrics: roe, opm and rev_growth_yoy times 100 (the code
\* multiplies them by 100), debt_ratio = liabilities / equity as stored, negative when
\* equity is negative
MetricRows ==
    [roe : {0 - 10, 0, 15, 40}, opm : {0 - 5, 10, 30},
     debt_ratio : {0 - 1, 0, 1, 250}, rev_growth : {0 - 20, 0, 20, 50}]

\* min(roe / 15 * 100, 100) if roe > 0 else 0
RoeScore(roe) ==
    IF roe > 0 THEN Min((roe * 100 * ScoreScale) \div 15, 100 * ScoreScale) ELSE 0

\* min(opm / 10 * 100, 100) if opm > 0 else 0
OpmScore(opm) ==
    IF opm > 0 THEN Min((opm * 100 * ScoreScale) \div 10, 100 * ScoreScale) ELSE 0

\* max(100 - debt_ratio, 0)
DebtScore(debt_ratio) == Max(100 * ScoreScale - debt_ratio * ScoreScale, 0)

\* min(max(rev_growth / 20 * 100, 0), 100)
GrowthScore(rev_growth) ==
    Min(Max((rev_growth * 100 * ScoreScale) \div 20, 0), 100 * ScoreScale)

\* round(x, 1) of x = n / (10 * d): the tenths, ties to the even tenth
RoundTenths(n, d) ==
    LET q == n \div d
        r == n % d
    IN  IF 2 * r < d THEN q
        ELSE IF 2 * r > d THEN q + 1
        ELSE IF q % 2 = 0 THEN q ELSE q + 1

\* financial_score = roe_score * 0.3 + opm_score * 0.2 + debt_score * 0.3
\* + growth_score * 0.2, rounded to one decimal: the result in tenths
FinancialScore(row) ==
    RoundTenths(RoeScore(row.roe) * 3 + OpmScore(row.opm) * 2
                    + DebtScore(row.debt_ratio) * 3 + GrowthScore(row.rev_growth) * 2,
                ScoreScale)

\* the row of signals_latest: rsi14, momentum_20d times 100, vol_20d (a rolling
\* standard deviation, never negative)
SignalRows == [rsi14 : {10, 25, 50, 75, 90}, momentum : {0 - 30, 0 - 10, 0, 10, 30},
               vol_20d : {0, 2, 5, 9}]

\* 100 if 30 <= rsi <= 70 else (50 if 20 <= rsi <= 80 else 20)
RsiScore(rsi) ==
    IF 30 <= rsi /\ rsi <= 70 THEN 100
    ELSE IF 20 <= rsi /\ rsi <= 80 THEN 50
    ELSE 20

\* min(max((momentum + 10) / 0.2, 0), 100)
MomentumScore(momentum) == Min(Max((momentum + 10) * 5, 0), 100)

\* max(50 - vol * 10, 0)
VolScore(vol) == Max(50 - vol * 10, 0)

\* data_analysis_score = rsi_score * 0.4 + momentum_score * 0.4 + vol_score * 0.2,
\* rounded to one decimal: the result in tenths
DataAnalysisScore(sig) ==
    RoundTenths(RsiScore(sig.rsi14) * 4 + MomentumScore(sig.momentum) * 4
                    + VolScore(sig.vol_20d) * 2, 1)

\* get_financial_metrics / get_technical_signals: an error dict when there is no row
NoRow == [found |-> FALSE]

ErrorDict == [error |-> TRUE]

get_financial_metrics(rows) ==
    IF ~rows.found THEN ErrorDict
    ELSE [error |-> FALSE, financial_score |-> FinancialScore(rows.latest)]

get_technical_signals(rows) ==
    IF ~rows.found THEN ErrorDict
    ELSE [error |-> FALSE, data_analysis_score |-> DataAnalysisScore(rows.latest)]

\* table prices_daily: annual_return and annual_vol of a ticker's closes, in percent;
\* TX has no rows
PricedTickers == {"T1", "T2"}

AnnualReturn(t) == IF t = "T1" THEN 10 ELSE 20

AnnualVol(t) == IF t = "T1" THEN 20 ELSE 30

\* the weights a call may carry, in hundredths
CallWeights == {0, 30, 50, 70, 100}

\* tickers and weights of a call of calculate_portfolio_performance
PerformanceInputs ==
    {[tickers |-> ts, weights |-> ws] :
        ts \in SeqsUpTo(Tickers, MaxEntries + 1), ws \in SeqsUpTo(CallWeights, MaxEntries + 1)}

RECURSIVE SumSeq(_)
SumSeq(ws) == IF ws = <<>> THEN 0 ELSE Head(ws) + SumSeq(Tail(ws))

\* the loop over tickers: one entry per ticker that has price rows; index is the
\* ticker's position in the call
RECURSIVE StockMetrics(_, _)
StockMetrics(tickers, i) ==
    IF i > Len(tickers) THEN <<>>
    ELSE IF tickers[i] \in PricedTickers
         THEN <<[index |-> i, annual_return |-> AnnualReturn(tickers[i]),
                 annual_vol |-> AnnualVol(tickers[i])]>> \o StockMetrics(tickers, i + 1)
         ELSE StockMetrics(tickers, i + 1)

\* zip(stock_metrics, weights): the k-th metrics with the k-th weight
ZipWeights(stock_metrics, weights) ==
    [k \in 1..Min(Len(stock_metrics), Len(weights)) |->
        [m |-> stock_metrics[k], w |-> weights[k]]]

RECURSIVE SumReturn(_)
SumReturn(pairs) ==
    IF pairs = <<>> THEN 0
    ELSE Head(pairs).m.annual_return * Head(pairs).w + SumReturn(Tail(pairs))

RECURSIVE SumVariance(_)
SumVariance(pairs) ==
    IF pairs = <<>> THEN 0
    ELSE Head(pairs).m.annual_vol * Head(pairs).m.annual_vol * Head(pairs).w * Head(pairs).w
            + SumVariance(Tail(pairs))

\* calculate_portfolio_performance: portfolio_return in percent times WeightScale,
\* portfolio_vol squared in percent squared times WeightScale squared; the other
\* figures of the result are functions of these two
calculate_portfolio_performance(tickers, weights) ==
    IF Len(tickers) # Len(weights) \/ Abs(SumSeq(weights) - WeightScale) > 1    \* 0.01
    THEN ErrorDict
    ELSE LET stock_metrics == StockMetrics(tickers, 1)
             pairs == ZipWeights(stock_metrics, weights)
         IN  IF stock_metrics = <<>> THEN ErrorDict
             ELSE [error |-> FALSE, pairs |-> pairs,
                   portfolio_return |-> SumReturn(pairs),
                   portfolio_variance |-> SumVariance(pairs)]

ScoringTools == {"get_financial_metrics", "get_technical_signals"}

InitCall ==
    /\ \/ /\ fn = "get_financial_metrics"
          /\ fn_input \in {NoRow} \cup {[found |-> TRUE, latest |-> r] : r \in MetricRows}
       \/ /\ fn = "get_technical_signals"
          /\ fn_input \in {NoRow} \cup {[found |-> TRUE, latest |-> r] : r \in SignalRows}
       \/ /\ fn = "calculate_portfolio_performance"
          /\ fn_input \in PerformanceInputs
    /\ fn_output = NoValue
    /\ fpc = "called"
    /\ IngestIdle
    /\ ValIdle /\ LoopIdle /\ MultiIdle /\ ExtractIdle

GetFinancialMetrics ==
    /\ fpc = "called" /\ fn = "get_financial_metrics"
    /\ fn_output' = get_financial_metrics(fn_input)
    /\ fpc' = "returned"
    /\ UNCHANGED <<fn, fn_input, ingestVars, valVars, loopVars, multiVars, extractVars>>

GetTechnicalSignals ==
    /\ fpc = "called" /\ fn = "get_technical_signals"
    /\ fn_output' = get_technical_signals(fn_input)
    /\ fpc' = "returned"
    /\ UNCHANGED <<fn, fn_input, ingestVars, valVars, loopVars, multiVars, extractVars>>

CalculatePortfolioPerformance ==
    /\ fpc = "called" /\ fn = "calculate_portfolio_performance"
    /\ fn_output' = calculate_portfolio_performance(fn_input.tickers, fn_input.weights)
    /\ fpc' = "returned"
    /\ UNCHANGED <<fn, fn_input, ingestVars, valVars, loopVars, multiVars, extractVars>>

NextCall == GetFinancialMetrics \/ GetTechnicalSignals \/ CalculatePortfolioPerformance

\* one call of a scoring tool or of calculate_portfolio_performance on any stored rows
SpecCall == InitCall /\ [][NextCall]_vars

-----------------------------------------------------------------------------
(* Properties of the validators, checked under SpecVal *)

\* the lookup a validator consults: the companies table for validate_portfolio_json,
\* state["company_infos"] for the two validation_node functions
LookupTickers == IF variant = "anthropic" THEN DbTickers ELSE DOMAIN company_infos

LookupRecord(t) ==
    IF variant = "anthropic"
    THEN [name |-> get_company_info(t).name, sector |-> get_company_info(t).sector]
    ELSE company_infos[t]

ValidationReturned == vpc = "validated" /\ validated.status = "returned"

Retained == validated.alloc

\* the weights of the retained entries share one denominator
RetainedDen == IF Retained = <<>> THEN WeightScale ELSE Retained[1].weight.d

\* |sum - 1.0| <= 0.05 for the retained entries
WithinTolerance ==
    Abs(SumWeight(Retained) - RetainedDen) * WeightScale <= Tolerance * RetainedDen

\* the retained weights sum to exactly 1.0
SumsToOne == SumWeight(Retained) = RetainedDen

\* the input entries the multi-agent validator keeps, as proposed
RECURSIVE KnownInput(_)
KnownInput(alloc) ==
    IF alloc = <<>> THEN <<>>
    ELSE IF Head(alloc).ticker \in DOMAIN company_infos
         THEN <<Head(alloc)>> \o KnownInput(Tail(alloc))
         ELSE KnownInput(Tail(alloc))

DroppedSome == Len(Retained) < Len(portfolio_allocation)

\* C3: in every validator variant, after validation every entry of
\* portfolio_allocation has a ticker that exists in the lookup; entries with an
\* unknown ticker are absent from the output.
C3_EveryTickerInLookup ==
    ValidationReturned =>
        \A i \in 1..Len(Retained) : Retained[i].ticker \in LookupTickers

C6_SumWithinTolerance ==
    (ValidationReturned /\ variant = "multi") =>
        (Retained = <<>> \/ WithinTolerance)

\* C6 amended: after the multi-agent validation, the retained weights sum to within
\* 0.05 of 1.0, or the retained list is empty, or the retained total is not positive
\* (then the weights stay as proposed).
C6_SumWithinToleranceOrNotPositive ==
    (ValidationReturned /\ variant = "multi") =>
        \/ Retained = <<>>
        \/ WithinTolerance
        \/ /\ SumWeight(Retained) <= 0
           /\ \A i \in 1..Len(Retained) :
                Retained[i].weight = KnownInput(portfolio_allocation)[i].weight

\* C6 witness: the multi-agent validation renormalized a total that was off.
C6_Witness ==
    /\ ValidationReturned /\ variant = "multi"
    /\ Len(Retained) = 2
    /\ Abs(SumWeight(KnownInput(portfolio_allocation)) - WeightScale) > Tolerance
    /\ SumsToOne

\* C7 as claimed: whenever the multi-agent validation drops an entry and keeps at
\* least one, the kept weights sum to 1.0.
C7_DropRenormalizesToOne ==
    (ValidationReturned /\ variant = "multi" /\ DroppedSome /\ Retained # <<>>) =>
        SumsToOne

\* C7 amended: whenever the multi-agent validation drops an entry and keeps at least
\* one, the kept weights sum to 1.0 if their proposed total is positive and off 1.0
\* by more than 0.05; otherwise they stay as proposed.
C7_DropRenormalizesWhenOff ==
    (ValidationReturned /\ variant = "multi" /\ DroppedSome /\ Retained # <<>>) =>
        IF NeedsNormalize(SumWeight(KnownInput(portfolio_allocation)))
        THEN SumsToOne
        ELSE \A i \in 1..Len(Retained) :
                Retained[i].weight = KnownInput(portfolio_allocation)[i].weight

\* C7 witness: weights 0.6 (known ticker) and 0.4 (unknown ticker) validate to one
\* entry of weight 1.0.
C7_Witness ==
    /\ ValidationReturned /\ variant = "multi"
    /\ Len(portfolio_allocation) = 2
    /\ portfolio_allocation[1].ticker = "T1"
    /\ portfolio_allocation[1].weight = Weight(60, WeightScale)
    /\ portfolio_allocation[2].ticker = "TX"
    /\ portfolio_allocation[2].weight = Weight(40, WeightScale)
    /\ Len(Retained) = 1
    /\ Retained[1].weight.n = Retained[1].weight.d

\* C8: every retained entry with a live price > 0 gets current_price = the live
\* price and shares = floor(amount / current_price), for every value of amount.
C8_SharesRecomputed ==
    (ValidationReturned /\ variant = "multi") =>
        \A i \in 1..Len(Retained) :
            LET stock == Retained[i]
            IN  (stock.ticker \in DOMAIN stock_prices
                    /\ stock_prices[stock.ticker] > 0
                    /\ "amount" \in stock.keys) =>
                /\ stock.current_price = stock_prices[stock.ticker]
                /\ stock.shares = stock.amount \div stock_prices[stock.ticker]

-----------------------------------------------------------------------------
(* Properties of the agent loops, checked under Spec and SpecFinal *)

Finished == pc \in {"returned", "responded"}

\* indexes of the assistant turns that carry tool calls
ToolTurns == {i \in DOMAIN messages : messages[i].role = "assistant" /\ messages[i].tool_calls # <<>>}

\* the model requested a tool call in every round so far
EveryRoundRequestedTools == Cardinality(ToolTurns) = model_calls

\* the proposal at index i has been executed: its results follow it
Executed(i) == i < Len(messages)

\* the tool message that answers call c of the proposal at index i
Answers(j, i, c) ==
    /\ j > i
    /\ messages[j].role = "tool"
    /\ messages[j].tool_call_id = c.id

\* call c names a tool of the engine's registry but lacks one of its required parameters
LacksRequired(c) ==
    IF engine = "single"
    THEN c.name \in DOMAIN ToolRequired /\ ~(ToolRequired[c.name] \subseteq c.args)
    ELSE c.name \in DOMAIN AvailableTools /\ ~(AvailableTools[c.name] \subseteq c.args)

\* call c names no tool of the engine's registry
UnknownTool(c) ==
    IF engine = "single"
    THEN c.name \notin DOMAIN ToolRequired
    ELSE c.name \notin DOMAIN AvailableTools

\* executing call c fails: unknown tool, arguments that do not bind, data-store error
CallFails(c) == UnknownTool(c) \/ LacksRequired(c) \/ c.fault

\* C1: run_portfolio_agent invokes the model at most max_iterations times; when the
\* model requests tools in every round the run returns the forced-termination result
\* (success false, iterations = max_iterations) after exactly max_iterations rounds,
\* and no exception leaves the run.
C1_AtMostMaxIterations ==
    engine = "single" =>
        /\ model_calls <= max_iterations
        /\ exception = "none"
        /\ (Finished /\ EveryRoundRequestedTools) =>
            /\ model_calls = max_iterations
            /\ result = ForcedResult(max_iterations)
            /\ ~result.success

\* C1 witness: a run with max_iterations >= 2 that ended by the bound.
C1_Witness ==
    /\ engine = "single" /\ pc = "returned"
    /\ max_iterations >= 2
    /\ EveryRoundRequestedTools
    /\ result.error = "max_iterations"
    /\ result.iterations = max_iterations

\* C2: when the proposal of round k has no tool calls, run_portfolio_agent ends in
\* that round with success = true and iterations = k, k being the number of model
\* invocations of the run.
C2_FinalAnswerEndsRun ==
    (engine = "single" /\ last_response = "final") =>
        /\ Finished
        /\ result.success
        /\ result.iterations = model_calls
        /\ result.iterations = Cardinality(ToolTurns) + 1
        /\ result.iterations <= max_iterations

\* C2 witness: tools requested in round 1, the final answer in round 2.
C2_Witness ==
    /\ engine = "single" /\ pc = "returned"
    /\ last_response = "final"
    /\ Cardinality(ToolTurns) = 1
    /\ result.success /\ result.iterations = 2

\* C4: every allocation entry analyze_portfolio delivers for a successful run has
\* passed through the validator (it is what validate_portfolio_json makes of an entry).
C4_DeliveredEntriesValidated ==
    (pc = "responded" /\ http.status = "ok") =>
        \A i \in 1..Len(http.alloc) : http.alloc[i] = ValidateItem(http.alloc[i])

\* C9: a tool call that fails (the tool raises, the data store fails, the name is
\* unknown) never makes an exception leave the loop; a tool result telling the failure
\* is appended for the call, and the loop goes on to its next model round.
C9_ToolFailureAbsorbed ==
    /\ exception # "tool"
    /\ \A i \in ToolTurns : Executed(i) =>
        \A k \in 1..Len(messages[i].tool_calls) :
            LET c == messages[i].tool_calls[k]
            IN  CallFails(c) =>
                    \E j \in DOMAIN messages :
                        Answers(j, i, c) /\ messages[j].content \in ErrorContents
    /\ (messages # <<>> /\ messages[Len(messages)].role = "tool") =>
        \/ pc \in {"loop", "coordinator"}
        \/ model_calls > messages[Len(messages)].tool_call_id[1]
        \/ engine = "single" /\ Finished /\ result = ForcedResult(max_iterations)

\* C9 witness: a call whose tool body raised was answered by an error result and the
\* model was invoked again.
C9_Witness ==
    \E i \in ToolTurns : \E k \in 1..Len(messages[i].tool_calls) :
        /\ messages[i].tool_calls[k].fault
        /\ ~UnknownTool(messages[i].tool_calls[k])
        /\ ~LacksRequired(messages[i].tool_calls[k])
        /\ \E j \in DOMAIN messages :
            /\ Answers(j, i, messages[i].tool_calls[k])
            /\ messages[j].content \in ErrorContents
        /\ model_calls > messages[i].tool_calls[k].id[1]

\* C10: a call that lacks a required parameter of the tool it names is answered by
\* an error result and the tool's body, with its data-store access, never runs.
C10_NoExecutionOnMissingParameter ==
    engine = "single" =>
        \A i \in ToolTurns : Executed(i) =>
            \A k \in 1..Len(messages[i].tool_calls) :
                LET c == messages[i].tool_calls[k]
                IN  LacksRequired(c) =>
                        /\ \A e \in DOMAIN executions : executions[e] # c.id
                        /\ \E j \in DOMAIN messages :
                            Answers(j, i, c) /\ messages[j].content \in ErrorContents
                        /\ \A j \in DOMAIN messages :
                            Answers(j, i, c) => messages[j].content \in ErrorContents

\* C10 witness: a proposal with a call lacking "weights" and a valid call was executed;
\* only the valid call's body ran.
C10_Witness ==
    /\ engine = "single"
    /\ \E i \in ToolTurns : \E k \in 1..Len(messages[i].tool_calls) :
        /\ Executed(i)
        /\ LacksRequired(messages[i].tool_calls[k])
        /\ \E m \in 1..Len(messages[i].tool_calls) :
            \E e \in DOMAIN executions : executions[e] = messages[i].tool_calls[m].id

-----------------------------------------------------------------------------
(* Properties of tool execution and of the transcript, checked under Spec *)

\* call c names a registered tool and its arguments conform to the tool's schema
Conforms(c) ==
    IF engine = "single"
    THEN c.name \in DOMAIN ToolRequired /\ ArgsBind(c.name, c.args)
    ELSE c.name \in DOMAIN AvailableTools /\ c.args = AvailableTools[c.name]

\* the body of the tool of a conforming call c returns (it does not raise)
BodyReturns(c) == engine = "graph" \/ ~c.fault

\* what the body of the tool of a conforming call c returns
BodyValue(c) == IF c.fault THEN "error_result" ELSE "ok"

\* the serialization the engine writes a tool's result with
EngineEncoding == IF engine = "single" THEN "json" ELSE "repr"

\* indexes of the tool messages that answer call c of the proposal at index i
AnswersOf(i, c) == {j \in DOMAIN messages : Answers(j, i, c)}

\* how often the body of the tool of call c ran
TimesRun(c) == Cardinality({e \in DOMAIN executions : executions[e] = c.id})

\* C11: for a call naming a registered tool with conforming arguments, the tool's
\* body runs exactly once, one result is placed in the transcript for the call, and
\* that result is the serialization of exactly the value the body returned.
C11_ExecutedOnceResultUnmodified ==
    \A i \in ToolTurns : Executed(i) =>
        \A k \in 1..Len(messages[i].tool_calls) :
            LET c == messages[i].tool_calls[k]
            IN  Conforms(c) =>
                    /\ TimesRun(c) = 1
                    /\ Cardinality(AnswersOf(i, c)) = 1
                    /\ BodyReturns(c) =>
                        \A j \in AnswersOf(i, c) :
                            /\ messages[j].content[1] = EngineEncoding
                            /\ Decoded(messages[j].content) = BodyValue(c)

\* C11 witness: a proposal of two conforming calls was executed and the transcript
\* holds the value each tool returned.
C11_Witness ==
    \E i \in ToolTurns :
        /\ Executed(i)
        /\ Len(messages[i].tool_calls) = 2
        /\ \A k \in 1..2 :
            /\ Conforms(messages[i].tool_calls[k])
            /\ ~messages[i].tool_calls[k].fault
            /\ \E j \in AnswersOf(i, messages[i].tool_calls[k]) :
                Decoded(messages[j].content) = "ok"

\* C12: when the model-client invocation of round k fails, run_portfolio_agent makes
\* no further model invocation and executes no further tool: it returns (no exception
\* leaves it) the error result with success = false, an error message and
\* iterations = k.
C12_ModelFailureIsFatal ==
    (engine = "single" /\ last_response = "failed") =>
        /\ Finished
        /\ exception = "none"
        /\ ~result.success
        /\ result.error = "llm"
        /\ result.iterations = model_calls
        /\ result.iterations = iteration
        /\ \A e \in DOMAIN executions : executions[e][1] < model_calls
        /\ \A j \in DOMAIN messages :
            messages[j].role = "tool" => messages[j].tool_call_id[1] < model_calls
        /\ Cardinality(ToolTurns) = model_calls - 1

\* C12 witness: the invocation of round 2 failed after a round of executed tools.
C12_Witness ==
    /\ engine = "single" /\ pc = "returned"
    /\ last_response = "failed"
    /\ model_calls = 2
    /\ executions # <<>>
    /\ result = LLMFailure(2)

\* run_portfolio_agent ended by a final answer
TerminalSuccess == engine = "single" /\ Finished /\ result.success

\* run_portfolio_agent ended by the iteration bound
TerminalForced == engine = "single" /\ Finished /\ result.error = "max_iterations"

\* C13: termination by a final answer and termination by the iteration bound lead to
\* the same downstream processing: once analyze_portfolio has responded, in both
\* cases the outcome went through extraction and a response built from the extracted
\* data was produced.
C13_SameDownstreamProcessing ==
    ((TerminalSuccess \/ TerminalForced) /\ pc = "responded") => http.status = "ok"

\* the proposal at index i and its results are in the transcript and the run is at
\* the point of its next model invocation
BeforeNextInvocation(i) == Executed(i) \/ pc \in {"loop", "coordinator"}

\* C14: the results of a proposal are in the transcript before the next model
\* invocation, they follow the proposal's assistant turn with no other turn in
\* between, and they stand in the order in which the proposal lists its calls.
C14_ResultsInCallOrder ==
    \A i \in ToolTurns : BeforeNextInvocation(i) =>
        LET calls == messages[i].tool_calls
        IN  /\ \A k \in 1..Len(calls) :
                /\ AnswersOf(i, calls[k]) # {}
                /\ \A j \in AnswersOf(i, calls[k]) :
                    \A m \in (i + 1)..j :
                        /\ messages[m].role = "tool"
                        /\ \E k0 \in 1..Len(calls) : messages[m].tool_call_id = calls[k0].id
            /\ \A k1, k2 \in 1..Len(calls) :
                k1 < k2 =>
                    \A j1 \in AnswersOf(i, calls[k1]), j2 \in AnswersOf(i, calls[k2]) : j1 < j2

\* C14 witness: a proposal of two different calls was executed and the run reached
\* its next model invocation.
C14_Witness ==
    \E i \in ToolTurns :
        /\ Len(messages[i].tool_calls) = 2
        /\ messages[i].tool_calls[1].name # messages[i].tool_calls[2].name
        /\ AnswersOf(i, messages[i].tool_calls[2]) # {}
        /\ model_calls > messages[i].tool_calls[1].id[1]

\* C15: whenever a tool-execution round has completed, every call of the proposal
\* just processed has exactly one tool result carrying its id (never zero, never
\* two), also when the tool raised or was not found.
C15_ExactlyOneResultPerCall ==
    \A i \in ToolTurns : Executed(i) =>
        \A k \in 1..Len(messages[i].tool_calls) :
            Cardinality(AnswersOf(i, messages[i].tool_calls[k])) = 1

-----------------------------------------------------------------------------
(* Properties of the multi-agent graph, checked under SpecMulti *)

\* the specialist has read its data and built its prompt
Started(a) == agents[a] \in {"invoking", "done", "failed"}

\* the supervisor step has been reached
AtOrPastSupervisor == mpc \in {"supervisor", "validation", "end"}

\* the tables as initialization_node loaded them
LoadedFinancial == LoadMetrics(company_infos, FinTickers, "roe")

LoadedTechnical == LoadMetrics(company_infos, TechTickers, "rsi14")

\* the prompt data of specialist a when it runs alone on the initialized state
SoloPrompt(a) ==
    IF a = "financial_agent"
    THEN Enrich(LoadedFinancial, stock_prices, company_infos, {"current_price", "period_return"})
    ELSE IF a = "technical_agent"
    THEN Enrich(LoadedTechnical, stock_prices, company_infos,
                {"current_price", "period_return", "volatility"})
    ELSE CompanyData(company_infos, stock_prices)

\* the slots after the specialists ran one after the other, each alone
SoloAnalyses ==
    [sl \in AnalysisSlots |->
        LET a == CHOOSE b \in Specialists : AnalysisSlot(b) = sl
        IN  Analysis(responses[a].text, SoloPrompt(a))]

\* C16: under every interleaving of the three specialist steps, the supervisor step
\* starts only after all three have completed, and it runs exactly once in a request
\* (not before the specialists are through, once when the request went on).
C16_SupervisorOnceAfterSpecialists ==
    mpc # "idle" =>
        /\ supervisor_runs <= 1
        /\ (AtOrPastSupervisor \/ supervisor_runs > 0) =>
                \A a \in Specialists : agents[a] = "done"
        /\ mpc \in {"validation", "end"} => supervisor_runs = 1
        /\ mpc \in {"initialization", "specialists", "supervisor", "raised"} =>
                supervisor_runs = 0

\* C16 witness: a request ended in which the news specialist returned first and the
\* financial specialist last.
C16_Witness ==
    /\ mpc = "end"
    /\ supervisor_runs = 1
    /\ Len(updates) = 3
    /\ updates[1].slot = "news_analysis"
    /\ updates[3].slot = "financial_analysis"

\* C17: each specialist returns its own slot only, what it changes in place (the
\* dicts of financial_metrics, resp. technical_signals) is read by no other
\* specialist, each reads what it would read running alone, and the slots the
\* supervisor sees are the same for every order and interleaving.
C17_SpecialistsDisjoint ==
    mpc # "idle" =>
        /\ \A i, j \in DOMAIN updates :
            /\ updates[i].slot \in AnalysisSlots
            /\ i # j => updates[i].slot # updates[j].slot
        /\ \A a \in Specialists :
            /\ Started(a) => prompts[a] = SoloPrompt(a)
            /\ agents[a] = "done" =>
                \E i \in DOMAIN updates :
                    /\ updates[i].slot = AnalysisSlot(a)
                    /\ updates[i].value = Analysis(responses[a].text, SoloPrompt(a))
        /\ agents["financial_agent"] = "ready" => financial_metrics = LoadedFinancial
        /\ agents["technical_agent"] = "ready" => technical_signals = LoadedTechnical
        /\ AtOrPastSupervisor => analyses = SoloAnalyses

\* C17 witness: the supervisor is reached after the technical specialist returned
\* first and the financial specialist last, with prices loaded and parsed answers.
C17_Witness ==
    /\ mpc = "supervisor"
    /\ stock_prices # <<>>
    /\ Len(updates) = 3
    /\ updates[1].slot = "technical_analysis"
    /\ updates[3].slot = "financial_analysis"
    /\ \A sl \in AnalysisSlots : analyses[sl].analysis = AnalysisPayload

-----------------------------------------------------------------------------
(* Properties of the extraction, checked under SpecExtract *)

\* the response is prose, a ```json block holding the serialization of P, prose
Embeds(text, P) ==
    \E pre \in Surroundings, post \in Surroundings, w1 \in Paddings, w2 \in Paddings :
        text = pre \o Fenced(Dumps(P), w1, w2) \o post

\* the response holds no ```json block
NoBlock(text) == FindOpen(text) = 0

\* C18: for any payload P, extraction from prose, a ```json block with the
\* serialization of P, prose yields a structure equal to P.
C18_EmbeddedPayloadRecovered ==
    xpc = "extracted" =>
        \A P \in ExtractPayloads :
            Embeds(response_text, P) => extracted = [ok |-> TRUE, data |-> P]

\* C19: the repair (quotes, then commas before a closing bracket) applied to text
\* that parses strictly changes nothing: what supervisor_node, which repairs before
\* it parses, extracts from such a text is the strict parse of the text.
C19_RepairKeepsValidText ==
    (xpc = "extracted" /\ extractor = "supervisor_node"
        /\ Loads(BlockOrText(response_text)).ok) =>
        /\ Loads(CommaRepair(QuoteRepair(BlockOrText(response_text))))
                = Loads(BlockOrText(response_text))
        /\ extracted = Loads(BlockOrText(response_text))

\* C20: when the response holds no fenced block but is itself valid JSON, extraction
\* parses the whole text and yields that payload, not the default.
C20_BareJsonParsed ==
    (xpc = "extracted" /\ NoBlock(response_text) /\ Loads(response_text).ok) =>
        extracted = Loads(response_text)

\* the extraction of this response fails, or its parsed value is not a JSON object
FailsOrMisshaped(e, text) ==
    ~ExtractedBy(e, text).ok \/ ExtractedBy(e, text).data.type # "dict"

\* C21: for every response whose extraction fails (no parse succeeds, even after the
\* repairs) or whose parsed value is not of the expected shape, the extraction raises
\* no exception and the caller continues with the default empty payload.
C21_FailedExtractionDefaults ==
    (xpc \in {"extracted", "raised"} /\ FailsOrMisshaped(extractor, response_text)) =>
        (xpc = "extracted" /\ extracted = ParseError)

-----------------------------------------------------------------------------
(* Error handling of the validators, checked under SpecVal *)

\* C22: validation never propagates an exception: for any extracted
\* portfolio_allocation (entries lacking weight or amount, a zero weight total
\* included) the validation step returns a payload rather than raising.
C22_ValidationNeverRaises ==
    vpc = "validated" => validated.status = "returned"

-----------------------------------------------------------------------------
(* Properties of the coordinator graph, checked under Spec *)

\* the run is in the loop of coordinator and tool_executor
InGraphLoop == pc \in {"coordinator", "tool_executor"}

\* C23: in the coordinator graph iteration_count grows by one per coordinator step
\* (it equals the number of model invocations) and never exceeds recursion_limit;
\* once it has reached recursion_limit the router leaves the loop for the report
\* path, whether or not the last proposal has tool calls, so the model is invoked at
\* most recursion_limit times.
C23_IterationCountBounded ==
    engine = "graph" =>
        /\ iteration = model_calls
        /\ iteration <= max_iterations
        /\ model_calls <= max_iterations
        /\ iteration >= max_iterations => ~InGraphLoop

\* C23 witness: the second coordinator step reached the limit with a proposal that
\* has tool calls, and the router sent the run to the report path.
C23_Witness ==
    /\ engine = "graph" /\ max_iterations >= 2
    /\ iteration = max_iterations /\ model_calls = max_iterations
    /\ last_response = "tools"
    /\ messages[Len(messages)].tool_calls # <<>>
    /\ pc = "portfolio_optimizer"

-----------------------------------------------------------------------------
(* Properties of the ingest tool, checked under SpecIngest *)

\* calls i and i + 1 had the same argument and the same crawled items, and stored them
Repeats(i) ==
    /\ ingest_log[i].sector_name = ingest_log[i + 1].sector_name
    /\ ingest_log[i].crawl = ingest_log[i + 1].crawl
    /\ ingest_log[i].stored /\ ingest_log[i + 1].stored

\* the stored points of this text and sector
Copies(text, sector_name) ==
    {p \in collection : p.text = text /\ p.sector = sector_name}

\* C24: the ingest tool is not idempotent: after two successive calls with the same
\* argument and the same crawled items the collection holds two copies of each item;
\* the record count after the second call is the count after the first plus the
\* number of items ingested.
C24_IngestNotIdempotent ==
    \A i \in 1..(Len(ingest_log) - 1) :
        Repeats(i) =>
            /\ ingest_log[i + 1].before = ingest_log[i].after
            /\ ingest_log[i + 1].after
                    = ingest_log[i].after + Len(ingest_log[i + 1].news_list)
            /\ \A j \in 1..Len(ingest_log[i + 1].news_list) :
                    Cardinality(Copies(ingest_log[i + 1].news_list[j].text,
                                       ingest_log[i + 1].sector_name)) >= 2

\* C24 witness: two calls with the same sector and the same two crawled news, both
\* stored: four points.
C24_Witness ==
    /\ Len(ingest_log) = 2
    /\ Repeats(1)
    /\ Len(ingest_log[2].news_list) = 2
    /\ ingest_log[1].after = 2
    /\ Cardinality(collection) = 4

\* the analyzer ran in this call
AnalyzerRan(call) ==
    sentiment_analyzer # "none" /\ call.crawl.ok /\ call.news_list # <<>>

\* C29: HybridSentimentAnalyzer.analyze_batch returns exactly one non-null result per
\* input item, in input order, whether or not FinBERT is available, so that the
\* ingest tool never dereferences a missing result.
C29_OneResultPerNews ==
    \A k \in 1..Len(ingest_log) :
        AnalyzerRan(ingest_log[k]) =>
            /\ Len(ingest_log[k].analyzed_news) = Len(ingest_log[k].news_list)
            /\ \A i \in 1..Len(ingest_log[k].news_list) :
                /\ ingest_log[k].analyzed_news[i] # NoneNews
                /\ ingest_log[k].analyzed_news[i].text = ingest_log[k].news_list[i].text
            /\ ~Dereferences(ingest_log[k].analyzed_news)

-----------------------------------------------------------------------------
(* Properties of the scoring tools and of calculate_portfolio_performance, *)
(* checked under SpecCall                                                   *)

\* a score, in tenths, lies in [0, 100]
ScoreInRange(tenths) == 0 <= tenths /\ tenths <= 1000

\* C25: for all stored metric values, negative and extreme ratios included, the
\* financial_score of get_financial_metrics and the data_analysis_score of
\* get_technical_signals lie in [0, 100].
C25_ScoresInRange ==
    (fpc = "returned" /\ fn \in ScoringTools /\ ~fn_output.error) =>
        IF fn = "get_financial_metrics"
        THEN ScoreInRange(fn_output.financial_score)
        ELSE ScoreInRange(fn_output.data_analysis_score)

\* sum of annual_return times the ticker's own weight over the tickers with price rows
RECURSIVE OwnWeightReturn(_, _, _)
OwnWeightReturn(tickers, weights, i) ==
    IF i > Len(tickers) THEN 0
    ELSE (IF tickers[i] \in PricedTickers THEN AnnualReturn(tickers[i]) * weights[i] ELSE 0)
            + OwnWeightReturn(tickers, weights, i + 1)

\* C28: in calculate_portfolio_performance each ticker's annual return and volatility
\* are combined using that same ticker's weight, also when some of the requested
\* tickers have no price data and are skipped.
C28_OwnWeightPerTicker ==
    (fpc = "returned" /\ fn = "calculate_portfolio_performance" /\ ~fn_output.error) =>
        /\ \A k \in 1..Len(fn_output.pairs) :
                fn_output.pairs[k].w = fn_input.weights[fn_output.pairs[k].m.index]
        /\ fn_output.portfolio_return
                = OwnWeightReturn(fn_input.tickers, fn_input.weights, 1)

-----------------------------------------------------------------------------
(* Properties of the report path and of the accumulator slots of the coordinator *)
(* graph, checked under Spec                                                     *)

\* the router sent the run out of the loop of coordinator and tool_executor
LeftGraphLoop == engine = "graph" /\ ~InGraphLoop /\ last_response \in {"tools", "final"}

\* the nodes of the report path, and the end of the graph
ReportPath == {"portfolio_optimizer", "performance_calculator", "report_generator", "end"}

\* C26: every run of the coordinator graph that leaves the loop, by a final answer or
\* by reaching recursion_limit, passes through portfolio_optimizer,
\* performance_calculator and report_generator and ends with final_report set,
\* without an exception reaching the caller.
C26_ReportPathCompletes ==
    LeftGraphLoop => (pc \in ReportPath /\ exception = "none")

\* the accumulator slot designated for a registered tool
DesignatedSlot(tool_name) ==
    IF tool_name = "get_sector_etf_momentum" THEN "momentum_result"
    ELSE IF tool_name = "search_realtime_news_tavily" THEN "realtime_news_result"
    ELSE "historical_news_result"

\* the slot holds the result of a successfully executed call of this tool
HoldsResultOf(slot, tool_name) ==
    \E i \in ToolTurns : \E k \in DOMAIN messages[i].tool_calls :
        /\ Executed(i)
        /\ messages[i].tool_calls[k].name = tool_name
        /\ Succeeds(messages[i].tool_calls[k])
        /\ slots[slot] = messages[i].tool_calls[k].id

\* C27: after tool_executor runs, for each successfully executed call to a registered
\* tool the accumulator slot designated for that tool holds the call's result
\* (momentum_result, realtime_news_result, historical_news_result for the vector-store
\* news tool); a slot whose tool was not called keeps its value, so a filled slot
\* always holds the result of a call of its own tool.
C27_SlotsHoldResults ==
    engine = "graph" =>
        \A i \in ToolTurns : \A k \in DOMAIN messages[i].tool_calls :
            (Executed(i) /\ Succeeds(messages[i].tool_calls[k])) =>
                HoldsResultOf(DesignatedSlot(messages[i].tool_calls[k].name),
                              messages[i].tool_calls[k].name)

====
